---- MODULE Spec2Model ----
(***************************************************************************)
(* Model of video-processor-rust/src/main.rs: the operation compiler       *)
(* (process_single_operation), the batch sequencer                         *)
(* (process_batch_operations) and the two request handlers (process_video, *)
(* process_batch) together with the working area (TempDir) they own.       *)
(***************************************************************************)
EXTENDS Integers, Sequences, FiniteSets, TLC

(* ----------------------------- bounds ---------------------------------- *)

\* longest operations list of a batch request
MaxOps == 3
\* largest `order` value of an operation
MaxOrder == 3

(* ------------------------- Option / Result ----------------------------- *)

\* Option<T>: None is the empty sequence, Some(x) the one-element sequence
None == <<>>
Some(x) == <<x>>
IsSome(o) == Len(o) = 1
UnwrapOr(o, d) == IF Len(o) = 1 THEN o[1] ELSE d

(* ------------------------------ numbers -------------------------------- *)

\* an f64 is modelled as a normalised fraction <<num, den>>, den > 0;
\* <<1, 0>> and <<-1, 0>> are +inf and -inf, <<0, 0>> is NaN
Abs(n) == IF n < 0 THEN -n ELSE n

RECURSIVE Gcd(_, _)
Gcd(a, b) == IF b = 0 THEN a ELSE Gcd(b, a % b)

Sign(n) == IF n < 0 THEN -1 ELSE IF n > 0 THEN 1 ELSE 0

Norm(num, den) ==
    IF den = 0 THEN <<Sign(num), 0>>
    ELSE LET g == Gcd(Abs(num), Abs(den))
             s == IF den < 0 THEN -1 ELSE 1
         IN  <<(s * num) \div g, (s * den) \div g>>

F64(n) == <<n, 1>>
FDiv(a, b) == Norm(a[1] * b[2], a[2] * b[1])
FSub(a, b) ==
    IF a[2] = 0 \/ b[2] = 0
    THEN (IF a[2] = 0 /\ b[2] = 0 /\ a[1] = b[1] THEN <<0, 0>>
          ELSE IF a[2] = 0 THEN a ELSE <<-b[1], 0>>)
    ELSE Norm(a[1] * b[2] - b[1] * a[2], a[2] * b[2])

(* ------------------------- serde_json::Value --------------------------- *)

JInt(n) == [ty |-> "int", num |-> n, den |-> 1, str |-> ""]
JFloat(n, d) == [ty |-> "float", num |-> n, den |-> d, str |-> ""]
JStr(s) == [ty |-> "string", num |-> 0, den |-> 1, str |-> s]
JBool(b) == [ty |-> "bool", num |-> IF b THEN 1 ELSE 0, den |-> 1, str |-> ""]

\* variant: booleans and strings are coerced to numbers
as_f64Coercing(v) == Some(Norm(v.num, v.den))

\* Value::as_f64: any number, integer or fractional
as_f64(v) == IF v.ty \in {"int", "float"} THEN Some(Norm(v.num, v.den)) ELSE None
\* Value::as_i64: only a number that is stored as an integer
as_i64(v) == IF v.ty = "int" THEN Some(v.num) ELSE None
\* Value::as_str
as_str(v) == IF v.ty = "string" THEN Some(v.str) ELSE None

\* HashMap::get
Get(parameters, key) ==
    IF key \in DOMAIN parameters THEN Some(parameters[key]) ELSE None

\* Option::and_then with one of the accessors above
GetF64(parameters, key) ==
    IF key \in DOMAIN parameters THEN as_f64(parameters[key]) ELSE None
GetI64(parameters, key) ==
    IF key \in DOMAIN parameters THEN as_i64(parameters[key]) ELSE None
GetStr(parameters, key) ==
    IF key \in DOMAIN parameters THEN as_str(parameters[key]) ELSE None

(* ------------------------- argument strings ---------------------------- *)

\* one argv entry or path: a format string, the numbers and the strings
\* substituted into it
Tok(s, n, t) == [s |-> s, n |-> n, t |-> t]
Lit(s) == Tok(s, <<>>, <<>>)

\* temp_dir.path().join(format!("input_{}.mp4", id)) and "output_{}.mp4"
InputPath(id) == Tok("input_{}.mp4", <<id>>, <<>>)
OutputPath(id) == Tok("output_{}.mp4", <<id>>, <<>>)

SupportedKinds ==
    {"adjustBrightness", "adjustSpeed", "trimVideo", "cropVideo", "addText",
     "applyFilter"}

YPos(position) ==
    IF position = "top" THEN "50"
    ELSE IF position = "bottom" THEN "h-th-50"
    ELSE "(h-th)/2"

FilterPreset(filter) ==
    IF filter = "cinematic"
    THEN Lit("eq=contrast=1.2:brightness=0.1:saturation=1.1,curves=all='0/0 0.5/0.58 1/1'")
    ELSE IF filter = "vintage"
    THEN Lit("eq=contrast=0.9:brightness=0.05:saturation=0.8,colorchannelmixer=.393:.769:.189:0:.349:.686:.168:0:.272:.534:.131")
    ELSE Lit("eq=contrast=1.1:brightness=0.05")

\* variant: the duration limit is the end time itself
TrimArgsAbsoluteEnd(parameters) ==
    LET start_time == UnwrapOr(GetF64(parameters, "startTime"), F64(0))
        end_time == GetF64(parameters, "endTime")
    IN  <<Lit("-ss"), Tok("{}", start_time, <<>>)>> \o
        (IF IsSome(end_time)
         THEN <<Lit("-t"), Tok("{}", end_time[1], <<>>)>>
         ELSE <<>>)

TrimArgs(parameters) ==
    LET start_time == UnwrapOr(GetF64(parameters, "startTime"), F64(0))
        end_time == GetF64(parameters, "endTime")
    IN  <<Lit("-ss"), Tok("{}", start_time, <<>>)>> \o
        (IF IsSome(end_time)
         THEN <<Lit("-t"), Tok("{}", FSub(end_time[1], start_time), <<>>)>>
         ELSE <<>>)

\* the arms of `match operation`: the arguments pushed between the input
\* and the output designation
OperationArgs(operation, parameters) ==
    CASE operation = "adjustBrightness" ->
           LET brightness ==
                 FDiv(UnwrapOr(GetF64(parameters, "brightness"), F64(0)), F64(100))
           IN  <<Lit("-vf"), Tok("eq=brightness={}", brightness, <<>>)>>
      [] operation = "adjustSpeed" ->
           LET speed == UnwrapOr(GetF64(parameters, "speed"), F64(1))
           IN  <<Lit("-vf"), Tok("setpts={}*PTS", FDiv(F64(1), speed), <<>>),
                 Lit("-af"), Tok("atempo={}", speed, <<>>)>>
      [] operation = "trimVideo" -> TrimArgs(parameters)
      [] operation = "cropVideo" ->
           LET x == UnwrapOr(GetI64(parameters, "x"), 0)
               y == UnwrapOr(GetI64(parameters, "y"), 0)
               width == UnwrapOr(GetI64(parameters, "width"), 1920)
               height == UnwrapOr(GetI64(parameters, "height"), 1080)
           IN  <<Lit("-vf"), Tok("crop={}:{}:{}:{}", <<width, height, x, y>>, <<>>)>>
      [] operation = "addText" ->
           LET text == UnwrapOr(GetStr(parameters, "text"), "Sample Text")
               position == UnwrapOr(GetStr(parameters, "position"), "center")
           IN  <<Lit("-vf"),
                 Tok("drawtext=text='{}':fontcolor=white:fontsize=24:x=(w-tw)/2:y={}",
                     <<>>, <<text, YPos(position)>>)>>
      [] operation = "applyFilter" ->
           LET filter == UnwrapOr(GetStr(parameters, "filter"), "cinematic")
           IN  <<Lit("-vf"), FilterPreset(filter)>>
      [] OTHER -> <<>>

\* variant: no operation name is rejected
IsUnsupportedNever(operation) == FALSE

\* the `_ =>` arm of `match operation` is taken
IsUnsupported(operation) == operation \notin SupportedKinds

\* variant: the operation's arguments are pushed after the output
BuildArgsOutputFirst(input_path, operation, parameters, output_str) ==
    <<Lit("-i"), input_path, Lit("-y"), output_str>>
        \o OperationArgs(operation, parameters)

\* the argument vector handed to run_ffmpeg
BuildArgs(input_path, operation, parameters, output_str) ==
    <<Lit("-i"), input_path>> \o OperationArgs(operation, parameters)
        \o <<Lit("-y"), output_str>>

(* ------------------------------ requests ------------------------------- *)

EmptyBag == <<>>

NumericKeys ==
    {"brightness", "speed", "startTime", "endTime", "x", "y", "width", "height"}
StringKeys == {"text", "position", "filter"}

\* values a numeric key is given in a request: integers, a fraction, and
\* values of the wrong type
NumericInputs ==
    {JInt(0), JInt(5), JInt(15), JFloat(5, 2), JStr("top"), JBool(TRUE)}
\* values a string key is given in a request
StringInputs ==
    {JStr("top"), JStr("bottom"), JStr("cinematic"), JStr("vintage"),
     JStr("hello"), JInt(5)}

InputsOf(key) == IF key \in NumericKeys THEN NumericInputs ELSE StringInputs

\* the keys that occur together in one parameter bag
KeyGroups ==
    {{"brightness"}, {"speed"}, {"startTime", "endTime"}, {"x", "y"},
     {"width", "height"}, {"text", "position"}, {"filter"}}

BagsOver(keys) ==
    {b \in [keys -> NumericInputs \cup StringInputs] :
        \A k \in keys : b[k] \in InputsOf(k)}

ParamBags ==
    UNION {UNION {BagsOver(ks) : ks \in SUBSET g} : g \in KeyGroups}

\* operation names of a request: the six supported ones and some others
RequestKinds == SupportedKinds \cup {"rotate", "", "trimvideo"}

\* POST /process
SingleRequests ==
    {[mode |-> "single", operation |-> k, parameters |-> b, operations |-> <<>>] :
        k \in RequestKinds, b \in ParamBags}

\* the (type, parameters) pairs the operations of a batch are drawn from
BatchProtos ==
    {[op_type |-> "adjustSpeed", parameters |-> [speed |-> JInt(5)]],
     [op_type |-> "cropVideo", parameters |-> EmptyBag],
     [op_type |-> "trimVideo",
      parameters |-> [startTime |-> JInt(5), endTime |-> JInt(15)]],
     [op_type |-> "rotate", parameters |-> EmptyBag]}

Operation ==
    {[op_type |-> p.op_type, parameters |-> p.parameters, order |-> o] :
        p \in BatchProtos, o \in 1..MaxOrder}

SeqsUpTo(S, n) == UNION {[1..m -> S] : m \in 0..n}

\* POST /batch
BatchRequests ==
    {[mode |-> "batch", operation |-> "batch", parameters |-> EmptyBag,
      operations |-> ops] : ops \in SeqsUpTo(Operation, MaxOps)}

(* ------------------------------ sorting -------------------------------- *)

\* variant: inserts before the elements of equal key (not stable)
RECURSIVE InsertPosBefore(_, _, _, _)
InsertPosBefore(s, idx, ops, k) ==
    IF k > Len(s) THEN k
    ELSE IF ops[s[k]].order < ops[idx].order
    THEN InsertPosBefore(s, idx, ops, k + 1)
    ELSE k

\* position at which index idx is inserted into the sorted index list s:
\* after every element whose key is less than or equal to its key
RECURSIVE InsertPos(_, _, _, _)
InsertPos(s, idx, ops, k) ==
    IF k > Len(s) THEN k
    ELSE IF ops[s[k]].order <= ops[idx].order THEN InsertPos(s, idx, ops, k + 1)
    ELSE k

InsertAt(s, k, e) == SubSeq(s, 1, k - 1) \o <<e>> \o SubSeq(s, k, Len(s))

RECURSIVE SortIndices(_, _)
SortIndices(ops, n) ==
    IF n = 0 THEN <<>>
    ELSE LET s == SortIndices(ops, n - 1)
         IN  InsertAt(s, InsertPos(s, n, ops, 1), n)

\* variant: the operations are left in request order
SortByKeyRequestOrder(ops) == [k \in 1..Len(ops) |-> k]

\* sorted_ops.sort_by_key(|op| op.order), a stable sort: the indices into
\* `operations` in execution order
SortByKey(ops) == SortIndices(ops, Len(ops))

(* ------------------------------- state --------------------------------- *)

VARIABLES
    me,            \* which request the handler below is serving
    peer,          \* the handler state of the other request, if there is one
    pc,            \* position of the request handler
    request,       \* the deserialized request body
    temp_dir,      \* TRUE while the processor's TempDir exists
    files,         \* the files of the working areas: path -> content
    uuid,          \* the identifiers Uuid::new_v4 has handed out so far
    input_path,    \* the path download_video returned
    current_input, \* process_batch_operations: the frontier
    sorted_ops,    \* process_batch_operations: the sorted copy
    sorted_src,    \* for each sorted operation, its index in the request
    next_op,       \* number of sorted operations the loop has consumed
    output,        \* result of the last process_single_operation call
    result,        \* what the processing stage returned to the handler
    output_path,   \* the path the handler uploads
    published,     \* the files copied to public/processed
    response,      \* the ProcessResponse, once sent
    invocations,   \* the run_ffmpeg calls made, oldest first
    removals       \* the fs::remove_file calls made, oldest first

vars ==
    <<me, peer, pc, request, temp_dir, files, uuid, input_path, current_input,
      sorted_ops, sorted_src, next_op, output, result, output_path, published,
      response, invocations, removals>>

NoPath == Lit("")
NoFiles == <<>>

\* anyhow::Result<String>
Ok(path) == [ok |-> TRUE, val |-> path, err |-> <<>>]
Err(e) == [ok |-> FALSE, val |-> NoPath, err |-> e]
NoResult == [ok |-> FALSE, val |-> NoPath, err |-> <<>>]

\* the diagnostics ffmpeg prints when it exits with a failure status
Stderrs == {"Invalid argument"}
\* the error of Command::output when the process cannot be started
SpawnErrors == {"No such file or directory (os error 2)"}
\* errors of the collaborators
TempDirErrors == {"tempdir: permission denied"}
FetchErrors == {"error sending request"}
PublishErrors == {"copy: no space left on device"}

SourceContent == <<"source">>

Exists(path) == path \in DOMAIN files

\* variant: the removal leaves the file in place
RemoveFromNothing(fs, path) == fs

RemoveFrom(fs, path) == [q \in DOMAIN fs \ {path} |-> fs[q]]

\* variant: every request is given the same directory
TempDirNameShared(r) == "/tmp/work"

\* tempfile::tempdir(): a directory of its own for the r-th request
TempDirName(r) == IF r = 1 THEN "/tmp/.tmpA" ELSE "/tmp/.tmpB"

\* temp_dir.path().join(file)
Join(dir, file) == Tok(file.s, file.n, <<dir>>)

\* the files of the directory dir
InDir(fs, dir) == {q \in DOMAIN fs : q.t = <<dir>>}

\* variant: the directory is kept when the processor is dropped
TempDirDropKeep(fs) == fs

\* Drop of TempDir: removes the request's directory and everything in it
TempDirDrop(fs) ==
    [q \in DOMAIN fs \ InDir(fs, TempDirName(me)) |-> fs[q]]

ProcessResponse(success, video_url, error, operation) ==
    [success |-> success, video_url |-> video_url, error |-> error,
     operation |-> operation]
NoResponse == ProcessResponse(FALSE, None, None, "")

\* operation label of the response
Label == IF request.mode = "single" THEN request.operation ELSE "batch"

\* the handler's own state
Locals ==
    [me |-> me, pc |-> pc, request |-> request, temp_dir |-> temp_dir,
     input_path |-> input_path, current_input |-> current_input,
     sorted_ops |-> sorted_ops, sorted_src |-> sorted_src,
     next_op |-> next_op, output |-> output, result |-> result,
     output_path |-> output_path, response |-> response,
     invocations |-> invocations, removals |-> removals]

\* the state of a handler that has just been entered for request r
Entered(r, req) ==
    [me |-> r, pc |-> "new", request |-> req, temp_dir |-> FALSE,
     input_path |-> NoPath, current_input |-> NoPath, sorted_ops |-> <<>>,
     sorted_src |-> <<>>, next_op |-> 0, output |-> NoResult,
     result |-> NoResult, output_path |-> NoPath, response |-> NoResponse,
     invocations |-> <<>>, removals |-> <<>>]

\* there is no other request
NoPeer == Entered(0, [mode |-> "none"])

Init ==
    /\ request \in SingleRequests \cup BatchRequests
    /\ me = 1
    /\ peer = NoPeer
    /\ pc = "new"
    /\ temp_dir = FALSE
    /\ files = NoFiles
    /\ uuid = 0
    /\ input_path = NoPath
    /\ current_input = NoPath
    /\ sorted_ops = <<>>
    /\ sorted_src = <<>>
    /\ next_op = 0
    /\ output = NoResult
    /\ result = NoResult
    /\ output_path = NoPath
    /\ published = {}
    /\ response = NoResponse
    /\ invocations = <<>>
    /\ removals = <<>>

\* variant: the failure is answered with success = true
FailReportsSuccess(message) ==
    /\ response' = ProcessResponse(TRUE, None, Some(message), Label)
    /\ pc' = "done"
    /\ temp_dir' = FALSE
    /\ files' = TempDirDrop(files)

\* the handler returns a failure response; its locals are dropped
Fail(message) ==
    /\ response' = ProcessResponse(FALSE, None, Some(message), Label)
    /\ pc' = "done"
    /\ temp_dir' = FALSE
    /\ files' = TempDirDrop(files)

(* ---------------------------- VideoProcessor --------------------------- *)

\* VideoProcessor::new succeeds
NewProcessor ==
    /\ pc = "new"
    /\ temp_dir' = TRUE
    /\ pc' = "download"
    /\ UNCHANGED <<me, peer, request, files, uuid, input_path, current_input, sorted_ops,
                   sorted_src, next_op, output, result, output_path, published,
                   response, invocations, removals>>

\* VideoProcessor::new fails: there is no processor to drop
NewProcessorFails ==
    /\ pc = "new"
    /\ \E e \in TempDirErrors :
          response' = ProcessResponse(FALSE, None, Some(<<e>>), Label)
    /\ pc' = "done"
    /\ UNCHANGED <<me, peer, request, temp_dir, files, uuid, input_path, current_input,
                   sorted_ops, sorted_src, next_op, output, result, output_path,
                   published, invocations, removals>>

\* download_video succeeds
Download ==
    /\ pc = "download"
    /\ input_path' = Join(TempDirName(me), InputPath(uuid))
    /\ uuid' = uuid + 1
    /\ files' = (Join(TempDirName(me), InputPath(uuid)) :> SourceContent) @@ files
    /\ pc' = "process"
    /\ UNCHANGED <<me, peer, request, temp_dir, current_input, sorted_ops, sorted_src,
                   next_op, output, result, output_path, published, response,
                   invocations, removals>>

\* download_video fails, in the fetch or in fs::write; the handler answers
DownloadFails ==
    /\ pc = "download"
    /\ \E e \in FetchErrors : Fail(<<"Failed to download video: {}", e>>)
    /\ UNCHANGED <<me, peer, request, uuid, input_path, current_input, sorted_ops,
                   sorted_src, next_op, output, result, output_path, published,
                   invocations, removals>>

\* variant: a failed run is attempted a second time
RunFfmpegRetry(args, input, out, operation, src) ==
    \/ \E stderr \in Stderrs :
          /\ output' = Err(<<"FFmpeg failed: {}", stderr>>)
          /\ invocations' = invocations \o
                <<[args |-> args, input |-> input, src |-> src, ok |-> FALSE,
                   err |-> <<"FFmpeg failed: {}", stderr>>],
                  [args |-> args, input |-> input, src |-> src, ok |-> FALSE,
                   err |-> <<"FFmpeg failed: {}", stderr>>]>>
          /\ UNCHANGED files
    \/ /\ Exists(input)
       /\ output' = Ok(out)
       /\ invocations' = Append(invocations,
             [args |-> args, input |-> input, src |-> src, ok |-> TRUE,
              err |-> <<>>])
       /\ files' = (out :> Append(files[input], operation)) @@ files

\* run_ffmpeg with the given arguments, reading input and writing out:
\* the process cannot be started, exits with a failure status (and may
\* leave a partial output file behind), or succeeds
RunFfmpeg(args, input, out, operation, src) ==
    \/ \E e \in SpawnErrors :
          /\ output' = Err(<<e>>)
          /\ invocations' = Append(invocations,
                [args |-> args, input |-> input, src |-> src, ok |-> FALSE,
                 err |-> <<e>>])
          /\ UNCHANGED files
    \/ \E stderr \in Stderrs, partial \in BOOLEAN :
          /\ output' = Err(<<"FFmpeg failed: {}", stderr>>)
          /\ invocations' = Append(invocations,
                [args |-> args, input |-> input, src |-> src, ok |-> FALSE,
                 err |-> <<"FFmpeg failed: {}", stderr>>])
          /\ files' = IF partial THEN (out :> <<"partial">>) @@ files ELSE files
    \/ /\ Exists(input)
       /\ output' = Ok(out)
       /\ invocations' = Append(invocations,
             [args |-> args, input |-> input, src |-> src, ok |-> TRUE,
              err |-> <<>>])
       /\ files' = (out :> Append(files[input], operation)) @@ files

\* process_single_operation(input, operation, parameters); src is the index
\* of the operation in the request
ProcessSingleOperation(input, operation, parameters, src) ==
    LET output_str == Join(TempDirName(me), OutputPath(uuid))
    IN  /\ uuid' = uuid + 1
        /\ IF IsUnsupported(operation)
           THEN /\ output' = Err(<<"Unsupported operation: {}", operation>>)
                /\ UNCHANGED <<files, invocations>>
           ELSE RunFfmpeg(BuildArgs(input, operation, parameters, output_str),
                          input, output_str, operation, src)

(* ----------------------- process_batch_operations ---------------------- *)

\* variant: every operation name is checked before the first step
BatchEnterValidating ==
    /\ pc = "process"
    /\ request.mode = "batch"
    /\ current_input' = input_path
    /\ sorted_src' = SortByKey(request.operations)
    /\ sorted_ops' = [k \in 1..Len(request.operations) |->
                        request.operations[SortByKey(request.operations)[k]]]
    /\ next_op' = 0
    /\ IF \E k \in 1..Len(request.operations) :
             request.operations[k].op_type \notin SupportedKinds
       THEN /\ pc' = "processed"
            /\ \E k \in 1..Len(request.operations) :
                  /\ request.operations[k].op_type \notin SupportedKinds
                  /\ result' = Err(<<"Unsupported operation: {}",
                                     request.operations[k].op_type>>)
                  /\ output' = result'
       ELSE pc' = "loop" /\ UNCHANGED <<output, result>>
    /\ UNCHANGED <<me, peer, request, temp_dir, files, uuid, input_path,
                   output_path, published, response, invocations, removals>>

\* entry: current_input = input_path, sort a copy of the operations
BatchEnter ==
    /\ pc = "process"
    /\ request.mode = "batch"
    /\ current_input' = input_path
    /\ sorted_src' = SortByKey(request.operations)
    /\ sorted_ops' = [k \in 1..Len(request.operations) |->
                        request.operations[SortByKey(request.operations)[k]]]
    /\ next_op' = 0
    /\ pc' = "loop"
    /\ UNCHANGED <<me, peer, request, temp_dir, files, uuid, input_path, output, result,
                   output_path, published, response, invocations, removals>>

\* variant: the error of a step is ignored
IsErrIgnored(r) == FALSE

\* the `?` after process_single_operation(...).await returns on an Err
IsErr(r) == ~r.ok

\* loop body, first half: process_single_operation(...).await?
BatchStep ==
    /\ pc = "loop"
    /\ next_op < Len(sorted_ops)
    /\ LET operation == sorted_ops[next_op + 1]
       IN  ProcessSingleOperation(current_input, operation.op_type,
                                  operation.parameters, sorted_src[next_op + 1])
    /\ IF IsErr(output')
       THEN pc' = "processed" /\ result' = output'
       ELSE pc' = "cleanup" /\ UNCHANGED result
    /\ UNCHANGED <<me, peer, request, temp_dir, input_path, current_input, sorted_ops,
                   sorted_src, next_op, output_path, published, response,
                   removals>>

\* variant: the previous frontier is never removed
ShouldRemoveNever(current, original) == FALSE

\* variant: the previous frontier is removed even when it is the source
ShouldRemoveAlways(current, original) == TRUE

\* whether the `if current_input != input_path` of the loop body is taken
ShouldRemove(current, original) == current # original

\* variant: the frontier is not advanced
NextFrontierStale(current, out) == current

\* `current_input = output`: the frontier after a successful step
NextFrontier(current, out) == out

\* variant: a failed removal ends the batch with an error
BatchCleanupAbortOnError ==
    /\ pc = "cleanup"
    /\ IF ShouldRemove(current_input, input_path)
       THEN \E removed \in BOOLEAN :
               /\ removals' = Append(removals,
                     [path |-> current_input, ok |-> removed /\ Exists(current_input),
                      step |-> next_op + 1])
               /\ files' = IF removed THEN RemoveFrom(files, current_input)
                           ELSE files
               /\ IF removed
                  THEN pc' = "loop" /\ UNCHANGED result
                  ELSE pc' = "processed" /\ result' = Err(<<"remove_file failed">>)
       ELSE pc' = "loop" /\ UNCHANGED <<files, removals, result>>
    /\ current_input' = NextFrontier(current_input, output.val)
    /\ next_op' = next_op + 1
    /\ UNCHANGED <<me, peer, request, temp_dir, uuid, input_path, sorted_ops,
                   sorted_src, output, output_path, published, response,
                   invocations>>

\* loop body, second half: remove the previous frontier, advance
BatchCleanup ==
    /\ pc = "cleanup"
    /\ IF ShouldRemove(current_input, input_path)
       THEN \E removed \in BOOLEAN :
               /\ removals' = Append(removals,
                     [path |-> current_input, ok |-> removed /\ Exists(current_input),
                      step |-> next_op + 1])
               /\ files' = IF removed THEN RemoveFrom(files, current_input)
                           ELSE files
       ELSE UNCHANGED <<files, removals>>
    /\ current_input' = NextFrontier(current_input, output.val)
    /\ next_op' = next_op + 1
    /\ pc' = "loop"
    /\ UNCHANGED <<me, peer, request, temp_dir, uuid, input_path, sorted_ops, sorted_src,
                   output, result, output_path, published, response,
                   invocations>>

\* variant: a batch without operations is rejected
BatchReturnRejectEmpty ==
    /\ pc = "loop"
    /\ next_op = Len(sorted_ops)
    /\ result' = IF Len(sorted_ops) = 0 THEN Err(<<"No operations">>)
                 ELSE Ok(current_input)
    /\ pc' = "processed"
    /\ UNCHANGED <<me, peer, request, temp_dir, files, uuid, input_path,
                   current_input, sorted_ops, sorted_src, next_op, output,
                   output_path, published, response, invocations, removals>>

\* the loop is over: Ok(current_input)
BatchReturn ==
    /\ pc = "loop"
    /\ next_op = Len(sorted_ops)
    /\ result' = Ok(current_input)
    /\ pc' = "processed"
    /\ UNCHANGED <<me, peer, request, temp_dir, files, uuid, input_path, current_input,
                   sorted_ops, sorted_src, next_op, output, output_path,
                   published, response, invocations, removals>>

(* ------------------------------ handlers ------------------------------- *)

\* process_video: processor.process_single_operation(...).await
SingleProcess ==
    /\ pc = "process"
    /\ request.mode = "single"
    /\ ProcessSingleOperation(input_path, request.operation,
                              request.parameters, 0)
    /\ result' = output'
    /\ pc' = "processed"
    /\ UNCHANGED <<me, peer, request, temp_dir, input_path, current_input, sorted_ops,
                   sorted_src, next_op, output_path, published, response,
                   removals>>

ProcessErrorPrefix ==
    IF request.mode = "single" THEN "Failed to process video: {}"
    ELSE "Failed to process batch operations: {}"

\* the handler's match on the processing result, Ok arm
Processed ==
    /\ pc = "processed"
    /\ result.ok
    /\ output_path' = result.val
    /\ pc' = "upload"
    /\ UNCHANGED <<me, peer, request, temp_dir, files, uuid, input_path, current_input,
                   sorted_ops, sorted_src, next_op, output, result, published,
                   response, invocations, removals>>

\* the handler's match on the processing result, Err arm
ProcessFailed ==
    /\ pc = "processed"
    /\ ~result.ok
    /\ Fail(<<ProcessErrorPrefix>> \o result.err)
    /\ UNCHANGED <<me, peer, request, uuid, input_path, current_input, sorted_ops,
                   sorted_src, next_op, output, result, output_path, published,
                   invocations, removals>>

\* upload_to_vercel_blob succeeds; the handler answers with the URL
Upload ==
    /\ pc = "upload"
    /\ Exists(output_path)
    /\ published' = published \cup
          {[id |-> uuid, file_name |-> output_path, content |-> files[output_path]]}
    /\ uuid' = uuid + 1
    /\ response' = ProcessResponse(TRUE,
          Some(Tok("http://localhost:3001/public/processed/{}_{}", <<uuid>>,
                   <<output_path.s>>)),
          None, Label)
    /\ pc' = "done"
    /\ temp_dir' = FALSE
    /\ files' = TempDirDrop(files)
    /\ UNCHANGED <<me, peer, request, input_path, current_input, sorted_ops, sorted_src,
                   next_op, output, result, output_path, invocations, removals>>

\* upload_to_vercel_blob fails (create_dir_all or copy); the handler answers
UploadFails ==
    /\ pc = "upload"
    /\ \E e \in PublishErrors : Fail(<<"Failed to upload result: {}", e>>)
    /\ UNCHANGED <<me, peer, request, uuid, input_path, current_input, sorted_ops,
                   sorted_src, next_op, output, result, output_path, published,
                   invocations, removals>>

Next ==
    \/ NewProcessor
    \/ NewProcessorFails
    \/ Download
    \/ DownloadFails
    \/ BatchEnter
    \/ BatchStep
    \/ BatchCleanup
    \/ BatchReturn
    \/ SingleProcess
    \/ Processed
    \/ ProcessFailed
    \/ Upload
    \/ UploadFails

Spec == Init /\ [][Next]_vars

(* --------------------------- two requests ------------------------------ *)

\* the requests served side by side
PairRequests ==
    {[mode |-> "single", operation |-> "cropVideo", parameters |-> EmptyBag,
      operations |-> <<>>],
     [mode |-> "batch", operation |-> "batch", parameters |-> EmptyBag,
      operations |->
         <<[op_type |-> "cropVideo", parameters |-> EmptyBag, order |-> 2],
           [op_type |-> "adjustSpeed", parameters |-> [speed |-> JInt(5)],
            order |-> 1]>>],
     [mode |-> "batch", operation |-> "batch", parameters |-> EmptyBag,
      operations |->
         <<[op_type |-> "cropVideo", parameters |-> EmptyBag, order |-> 1],
           [op_type |-> "rotate", parameters |-> EmptyBag, order |-> 2]>>]}

\* two handlers have been entered, each for a request of its own
InitTwo ==
    /\ request \in PairRequests
    /\ me = 1
    /\ \E req \in PairRequests : peer = Entered(2, req)
    /\ pc = "new"
    /\ temp_dir = FALSE
    /\ files = NoFiles
    /\ uuid = 0
    /\ input_path = NoPath
    /\ current_input = NoPath
    /\ sorted_ops = <<>>
    /\ sorted_src = <<>>
    /\ next_op = 0
    /\ output = NoResult
    /\ result = NoResult
    /\ output_path = NoPath
    /\ published = {}
    /\ response = NoResponse
    /\ invocations = <<>>
    /\ removals = <<>>

\* the runtime runs the other request's task; the file system, the
\* identifiers handed out and public/processed are common to both
Switch ==
    /\ peer.me # 0
    /\ peer' = Locals
    /\ me' = peer.me
    /\ pc' = peer.pc
    /\ request' = peer.request
    /\ temp_dir' = peer.temp_dir
    /\ input_path' = peer.input_path
    /\ current_input' = peer.current_input
    /\ sorted_ops' = peer.sorted_ops
    /\ sorted_src' = peer.sorted_src
    /\ next_op' = peer.next_op
    /\ output' = peer.output
    /\ result' = peer.result
    /\ output_path' = peer.output_path
    /\ response' = peer.response
    /\ invocations' = peer.invocations
    /\ removals' = peer.removals
    /\ UNCHANGED <<files, uuid, published>>

NextTwo ==
    \/ NewProcessor
    \/ NewProcessorFails
    \/ Download
    \/ DownloadFails
    \/ BatchEnter
    \/ BatchStep
    \/ BatchCleanup
    \/ BatchReturn
    \/ SingleProcess
    \/ Processed
    \/ ProcessFailed
    \/ Upload
    \/ UploadFails
    \/ Switch

SpecTwo == InitTwo /\ [][NextTwo]_vars

(* ------------------------------ properties ----------------------------- *)

Batch == request.mode = "batch"
NumOps == Len(request.operations)
OrderOf(src) == request.operations[src].order
LastArg(args) == args[Len(args)]
\* the handler holds the value process_batch_operations returned
Returned == pc \in {"processed", "upload", "done"}
DistinctOrders ==
    \A a, b \in 1..NumOps : a # b => OrderOf(a) # OrderOf(b)

\* C1: a batch of N operations with pairwise distinct orders whose steps all
\* succeed invokes run_ffmpeg exactly N times, once per operation, in
\* strictly ascending order of `order`, whatever the request order.
C1_AscendingOnce ==
    (Batch /\ DistinctOrders /\ Returned /\ result.ok) =>
        /\ Len(invocations) = NumOps
        /\ \A a \in 1..NumOps :
              Cardinality({k \in 1..Len(invocations) : invocations[k].src = a}) = 1
        /\ \A k \in 1..(Len(invocations) - 1) :
              OrderOf(invocations[k].src) < OrderOf(invocations[k + 1].src)

\* a successful batch of three operations given in descending order
C1_Witness ==
    /\ Batch /\ pc = "processed" /\ result.ok
    /\ NumOps = 3 /\ DistinctOrders
    /\ OrderOf(1) > OrderOf(2) /\ OrderOf(2) > OrderOf(3)
    /\ Len(invocations) = 3

\* C2: operations with the same order run in the order of the request's
\* list, operations with different orders run in ascending order.
C2_StableOrder ==
    Batch =>
        \A j, k \in 1..Len(invocations) :
            j < k =>
                \/ OrderOf(invocations[j].src) < OrderOf(invocations[k].src)
                \/ /\ OrderOf(invocations[j].src) = OrderOf(invocations[k].src)
                   /\ invocations[j].src < invocations[k].src

\* three steps ran: two of equal order, and one of smaller order that the
\* request lists last
C2_Witness ==
    /\ Batch /\ NumOps = 3 /\ Len(invocations) = 3
    /\ OrderOf(1) = OrderOf(2) /\ OrderOf(3) < OrderOf(1)
    /\ invocations[1].src = 3

\* the error of the step the loop stopped at
StepError ==
    IF Len(invocations) = next_op + 1
    THEN invocations[next_op + 1].err
    ELSE <<"Unsupported operation: {}", sorted_ops[next_op + 1].op_type>>

\* C3: when step k of a batch fails, no later operation is compiled or
\* transcoded, process_batch_operations returns the error of step k, that
\* error is the one reported, and nothing is published.
C3_AbortOnFailure ==
    Batch =>
        /\ \A k \in 1..(Len(invocations) - 1) : invocations[k].ok
        /\ (~output.ok /\ output.err # <<>>) =>
              /\ pc \in {"processed", "done"}
              /\ result = output
              /\ uuid = next_op + 2
              /\ Len(invocations) \in {next_op, next_op + 1}
              /\ Len(invocations) = next_op =>
                    IsUnsupported(sorted_ops[next_op + 1].op_type)
              /\ result.err = StepError
              /\ published = {}
              /\ pc = "done" =>
                    response = ProcessResponse(FALSE, None,
                        Some(<<"Failed to process batch operations: {}">>
                                \o StepError), "batch")

\* the second of three steps failed in the transcoder and the handler
\* has answered
C3_Witness ==
    /\ Batch /\ pc = "done" /\ ~result.ok
    /\ Len(sorted_ops) = 3 /\ next_op = 1
    /\ Len(invocations) = 2 /\ ~invocations[2].ok

\* the output path of the k-th run_ffmpeg call
OutputOf(k) == LastArg(invocations[k].args)
SucceededBatch == Batch /\ pc \in {"processed", "upload"} /\ result.ok

\* C4 as claimed: after a successful batch of N > 1 operations the working
\* area holds exactly the original source, unchanged, and the final output;
\* the N - 1 earlier step outputs no longer exist.
C4_Original ==
    (SucceededBatch /\ NumOps > 1) =>
        /\ DOMAIN files = {input_path, result.val}
        /\ files[input_path] = SourceContent
        /\ \A k \in 1..(NumOps - 1) : ~Exists(OutputOf(k))

\* C4, amended: after a successful batch of N > 1 operations the original
\* source exists unchanged, the returned path is the last step's output and
\* exists, and each of the N - 1 earlier outputs had one removal attempt: it
\* is gone if the attempt succeeded and still there if it failed; the
\* working area holds no other file.
C4_FinalFiles ==
    (SucceededBatch /\ NumOps > 1) =>
        /\ Exists(input_path) /\ files[input_path] = SourceContent
        /\ Len(invocations) = NumOps
        /\ result.val = OutputOf(NumOps) /\ Exists(result.val)
        /\ Len(removals) = NumOps - 1
        /\ \A k \in 1..(NumOps - 1) :
              /\ removals[k].path = OutputOf(k)
              /\ Exists(OutputOf(k)) <=> ~removals[k].ok
        /\ DOMAIN files \subseteq
              {input_path} \cup {OutputOf(k) : k \in 1..NumOps}

\* a batch of three succeeded; the first removal succeeded, the second failed
C4_Witness ==
    /\ SucceededBatch /\ NumOps = 3 /\ pc = "processed"
    /\ Len(removals) = 2 /\ removals[1].ok /\ ~removals[2].ok

C6_SourceKept ==
    Batch =>
        /\ \A r \in 1..Len(removals) :
              /\ removals[r].path # input_path
              /\ removals[r].step \in 1..Len(invocations)
              /\ invocations[removals[r].step].ok
              /\ removals[r].path = invocations[removals[r].step].input
        /\ pc \in {"loop", "cleanup", "processed", "upload"} =>
              Exists(input_path) /\ files[input_path] = SourceContent

\* the first output was removed and then the third step failed
C6_Witness ==
    /\ Batch /\ pc = "processed" /\ ~result.ok
    /\ Len(removals) = 1 /\ Len(invocations) = 3 /\ removals[1].ok

\* C7: when the handler has returned, on any path on which the working
\* area was created, the working area and every file in it are gone.
C7_Teardown ==
    /\ pc = "done" => ~temp_dir /\ files = NoFiles
    /\ pc \notin {"new", "done"} => temp_dir

\* the upload failed after a batch that left an undeleted intermediate
C7_Witness ==
    /\ pc = "done" /\ ~response.success
    /\ response.error # None /\ response.error[1][1] = "Failed to upload result: {}"
    /\ Len(removals) = 1 /\ ~removals[1].ok

\* process_single_operation is about to be called
CallPending ==
    \/ pc = "process" /\ ~Batch
    \/ pc = "loop" /\ next_op < Len(sorted_ops)
\* the operation name and input path it is called with
CalledKind ==
    IF Batch THEN sorted_ops[next_op + 1].op_type ELSE request.operation
CalledInput == IF Batch THEN current_input ELSE input_path

\* C8: for an operation name outside the six supported ones, whatever the
\* parameters, process_single_operation returns "Unsupported operation"
\* naming it, does not call run_ffmpeg and leaves every file as it was.
C8_UnsupportedNoEffect ==
    [][(CallPending /\ CalledKind \notin SupportedKinds) =>
          /\ output' = Err(<<"Unsupported operation: {}", CalledKind>>)
          /\ invocations' = invocations
          /\ files' = files
          /\ removals' = removals
          /\ published' = published]_vars

\* the second step of a batch was rejected as unsupported
C8_Witness ==
    /\ Batch /\ pc = "processed" /\ next_op = 1
    /\ output = Err(<<"Unsupported operation: {}", "rotate">>)
    /\ Len(invocations) = 1 /\ Exists(current_input) /\ Exists(input_path)

\* C9: the argument list of every run_ffmpeg call starts with "-i" and the
\* supplied input path, ends with "-y" and the output path, and holds the
\* output path once; that path is a new output_<id>.mp4 that does not exist
\* yet and differs from the input and from every earlier output.
C9_ArgumentShape ==
    [][(CallPending /\ Len(invocations') = Len(invocations) + 1) =>
          LET args == invocations'[Len(invocations')].args
              n == Len(args)
          IN  /\ n >= 4
              /\ args[1] = Lit("-i")
              /\ args[2] = CalledInput
              /\ args[n - 1] = Lit("-y")
              /\ args[n].s = "output_{}.mp4"
              /\ Cardinality({j \in 1..n : args[j] = args[n]}) = 1
              /\ args[n] # CalledInput
              /\ ~Exists(args[n])
              /\ \A j \in 1..Len(invocations) : OutputOf(j) # args[n]]_vars

\* the third step of a batch was handed the second step's output
C9_Witness ==
    /\ Batch /\ Len(invocations) = 3
    /\ invocations[3].args[2] = OutputOf(2)
    /\ OutputOf(3) \notin {OutputOf(1), OutputOf(2), input_path}

RECURSIVE Applied(_)
\* the content of the file that the first k sorted operations produce
Applied(k) ==
    IF k = 0 THEN SourceContent
    ELSE Append(Applied(k - 1), sorted_ops[k].op_type)

\* C10: the first step reads the original source, every later step reads
\* the output of the step before it, which had succeeded, and the path the
\* batch returns is the output of the last step.
C10_Chaining ==
    Batch =>
        /\ \A k \in 1..Len(invocations) :
              invocations[k].input =
                 IF k = 1 THEN input_path ELSE OutputOf(k - 1)
        /\ \A k \in 1..(Len(invocations) - 1) : invocations[k].ok
        /\ (Returned /\ result.ok /\ Len(invocations) >= 1) =>
              /\ invocations[Len(invocations)].ok
              /\ result.val = OutputOf(Len(invocations))
        /\ (SucceededBatch /\ Len(invocations) >= 1) =>
              files[result.val] = Applied(Len(sorted_ops))

\* three steps succeeded in an order that is not the request's
C10_Witness ==
    /\ SucceededBatch /\ Len(invocations) = 3
    /\ sorted_src = <<2, 3, 1>>
    /\ files[result.val] =
          <<"source", request.operations[2].op_type,
            request.operations[3].op_type, request.operations[1].op_type>>

(* --------------------- properties of the compiler ---------------------- *)

\* the operation name and parameters of the k-th run_ffmpeg call
InvKind(k) ==
    IF Batch THEN request.operations[invocations[k].src].op_type
    ELSE request.operation
InvParams(k) ==
    IF Batch THEN request.operations[invocations[k].src].parameters
    ELSE request.parameters

\* the parameters an operation reads
KeysOf(kind) ==
    CASE kind = "adjustBrightness" -> {"brightness"}
      [] kind = "adjustSpeed" -> {"speed"}
      [] kind = "trimVideo" -> {"startTime", "endTime"}
      [] kind = "cropVideo" -> {"x", "y", "width", "height"}
      [] kind = "addText" -> {"text", "position"}
      [] kind = "applyFilter" -> {"filter"}
      [] OTHER -> {}

IsNumber(v) == v.ty \in {"int", "float"}
\* the number a JSON number stands for
NumberOf(v) == Norm(v.num, v.den)
HasNumber(params, key) == key \in DOMAIN params /\ IsNumber(params[key])
HasString(params, key) == key \in DOMAIN params /\ params[key].ty = "string"
NumberOr(params, key, d) ==
    IF HasNumber(params, key) THEN NumberOf(params[key]) ELSE <<d, 1>>
Minus(a, b) == Norm(a[1] * b[2] - b[1] * a[2], a[2] * b[2])

\* the argument list uses the number v for the numeric parameter key
UsesNumber(key, params, args, v) ==
    CASE key = "brightness" -> args[4].n = Norm(v[1], v[2] * 100)
      [] key = "speed" -> args[6].n = v /\ args[4].n = Norm(v[2], v[1])
      [] key = "startTime" -> args[4].n = v
      [] key = "endTime" ->
           /\ Len(args) = 8 /\ args[5] = Lit("-t")
           /\ args[6].n = Minus(v, NumberOr(params, "startTime", 0))
      [] key = "x" -> <<args[4].n[3], 1>> = v
      [] key = "y" -> <<args[4].n[4], 1>> = v
      [] key = "width" -> <<args[4].n[1], 1>> = v
      [] key = "height" -> <<args[4].n[2], 1>> = v

\* C11 as claimed: every numeric parameter of a supported operation, given
\* as an integer or as a fractional number, is the value used in the
\* compiled arguments.
C11_NumbersAccepted ==
    \A k \in 1..Len(invocations) :
        \A key \in KeysOf(InvKind(k)) \cap NumericKeys :
            HasNumber(InvParams(k), key) =>
                UsesNumber(key, InvParams(k), invocations[k].args,
                           NumberOf(InvParams(k)[key]))

\* the argument list uses the documented default for the parameter key
UsesDefault(key, args) ==
    CASE key = "brightness" -> args[4] = Tok("eq=brightness={}", <<0, 1>>, <<>>)
      [] key = "speed" ->
           /\ args[4] = Tok("setpts={}*PTS", <<1, 1>>, <<>>)
           /\ args[6] = Tok("atempo={}", <<1, 1>>, <<>>)
      [] key = "startTime" -> args[3] = Lit("-ss") /\ args[4] = Tok("{}", <<0, 1>>, <<>>)
      [] key = "endTime" -> Len(args) = 6
      [] key = "x" -> args[4].n[3] = 0
      [] key = "y" -> args[4].n[4] = 0
      [] key = "width" -> args[4].n[1] = 1920
      [] key = "height" -> args[4].n[2] = 1080
      [] key = "text" -> args[4].t[1] = "Sample Text"
      [] key = "position" -> args[4].t[2] = "(h-th)/2"
      [] key = "filter" ->
           args[4] = Lit("eq=contrast=1.2:brightness=0.1:saturation=1.1,curves=all='0/0 0.5/0.58 1/1'")

CalledParams ==
    IF Batch THEN sorted_ops[next_op + 1].parameters ELSE request.parameters

\* the parameter is missing or is not of the type the operation expects
Unusable(params, key) ==
    IF key \in NumericKeys THEN ~HasNumber(params, key)
    ELSE ~HasString(params, key)

\* C12: for a supported operation a missing or mistyped parameter never
\* makes the compile step fail: run_ffmpeg is called, the only error there
\* can be is the transcoder's, and the parameter has its documented default.
C12_TotalResolution ==
    [][(CallPending /\ CalledKind \in SupportedKinds) =>
          /\ Len(invocations') = Len(invocations) + 1
          /\ output'.ok = invocations'[Len(invocations')].ok
          /\ output'.err = invocations'[Len(invocations')].err
          /\ \A key \in KeysOf(CalledKind) :
                Unusable(CalledParams, key) =>
                    UsesDefault(key, invocations'[Len(invocations')].args)]_vars

\* a trim was compiled whose startTime is a string and whose endTime is a
\* boolean
C12_Witness ==
    /\ ~Batch /\ request.operation = "trimVideo" /\ Len(invocations) = 1
    /\ DOMAIN request.parameters = {"startTime", "endTime"}
    /\ request.parameters["startTime"].ty = "string"
    /\ request.parameters["endTime"].ty = "bool"
    /\ Len(invocations[1].args) = 6

\* C13: a trim always seeks with "-ss startTime" (0 when not given); it
\* limits the duration with "-t d" exactly when a numeric endTime is given,
\* and then d = endTime - startTime.
C13_Trim ==
    \A k \in 1..Len(invocations) :
        InvKind(k) = "trimVideo" =>
            LET args == invocations[k].args
                params == InvParams(k)
                start == NumberOr(params, "startTime", 0)
                limits == {j \in 1..Len(args) : args[j] = Lit("-t")}
            IN  /\ args[3] = Lit("-ss")
                /\ args[4] = Tok("{}", start, <<>>)
                /\ (limits # {}) <=> HasNumber(params, "endTime")
                /\ HasNumber(params, "endTime") =>
                      /\ limits = {5}
                      /\ args[6] = Tok("{}",
                            Minus(NumberOf(params["endTime"]), start), <<>>)
                /\ ~HasNumber(params, "endTime") => Len(args) = 6

\* a trim from 5/2 to 15 was compiled: the limit is 25/2
C13_Witness ==
    /\ ~Batch /\ request.operation = "trimVideo" /\ Len(invocations) = 1
    /\ request.parameters = [startTime |-> JFloat(5, 2), endTime |-> JInt(15)]
    /\ invocations[1].args[6] = Tok("{}", <<25, 2>>, <<>>)

(* --------------------- properties of the sequencer --------------------- *)

\* C14: there is no retry: every run_ffmpeg call is the one call for an
\* operation that has not been run before, and no call follows a call
\* that failed.
C14_NoRetry ==
    [][invocations' # invocations =>
          /\ CallPending
          /\ Len(invocations') = Len(invocations) + 1
          /\ SubSeq(invocations', 1, Len(invocations)) = invocations
          /\ \A k \in 1..Len(invocations) :
                /\ invocations[k].ok
                /\ invocations[k].src # invocations'[Len(invocations')].src
          /\ Len(invocations') <= IF Batch THEN NumOps ELSE 1]_vars

\* the one transcoder call of a single-operation request failed and the
\* handler has answered
C14_Witness ==
    /\ ~Batch /\ pc = "done" /\ ~response.success
    /\ Len(invocations) = 1 /\ ~invocations[1].ok

(* ------------------- properties of concurrent requests ----------------- *)

\* the content the handler's finished processing stage has produced
ProcessedContent ==
    IF Batch THEN Applied(Len(sorted_ops)) ELSE <<"source", request.operation>>

\* what the running request relies on: the files it has written and not
\* removed are there with the content it gave them, its directory holds
\* nothing else, and what it published is what it produced
Undisturbed ==
    /\ pc \in {"process", "loop", "cleanup", "processed", "upload"} =>
          Exists(input_path) /\ files[input_path] = SourceContent
    /\ (Batch /\ pc \in {"loop", "cleanup"}) =>
          Exists(current_input) /\ files[current_input] = Applied(next_op)
    /\ pc = "cleanup" =>
          Exists(output.val) /\ files[output.val] = Applied(next_op + 1)
    /\ pc = "upload" =>
          Exists(output_path) /\ files[output_path] = ProcessedContent
    /\ InDir(files, TempDirName(me)) \subseteq
          {input_path} \cup {OutputOf(k) : k \in 1..Len(invocations)}
    /\ pc = "done" => InDir(files, TempDirName(me)) = {}
    /\ (pc = "done" /\ response.success) =>
          \E p \in published :
              /\ p.id = response.video_url[1].n[1]
              /\ p.file_name = output_path
              /\ p.content = ProcessedContent

\* a step of the running request leaves the other request's state, the
\* files outside its own directory and the published files as they were
OthersUntouched ==
    /\ peer' = peer
    /\ \A q \in DOMAIN files \ InDir(files, TempDirName(me)) :
          q \in DOMAIN files' /\ files'[q] = files[q]
    /\ published \subseteq published'

\* C16: two requests served side by side share no mutable state: under
\* every interleaving a step of one request leaves the other's variables
\* and files untouched, and each request finds its own files, frontier and
\* published result exactly as it would when running alone.
C16_Isolation ==
    [][Undisturbed' /\ (me' = me => OthersUntouched)]_vars

\* two batches of two operations ran interleaved and both succeeded
C16_Witness ==
    /\ pc = "done" /\ response.success /\ Len(invocations) = 2
    /\ peer.pc = "done" /\ peer.response.success /\ Len(peer.invocations) = 2
    /\ input_path.n = <<1>> /\ peer.input_path.n = <<0>>
    /\ OutputOf(1).n = <<2>> /\ OutputOf(2).n = <<4>>
    /\ Cardinality(published) = 2

(* ------------------ properties of cleanup and responses ---------------- *)

\* C15: a removal that fails neither ends the batch nor is reported:
\* whether it succeeds or fails, the cleanup leaves the loop at the same
\* place with the same frontier, result and response, changes no file but
\* the superseded one, and no later step reads a file a removal targeted.
C15_DeletionsIgnored ==
    [][/\ pc = "cleanup" =>
             /\ pc' = "loop"
             /\ current_input' = output.val
             /\ next_op' = next_op + 1
             /\ UNCHANGED <<output, result, response, invocations, uuid,
                            sorted_ops, sorted_src, published, input_path>>
             /\ Len(removals') <= Len(removals) + 1
             /\ \A q \in DOMAIN files \ {current_input} :
                   q \in DOMAIN files' /\ files'[q] = files[q]
             /\ DOMAIN files' \subseteq DOMAIN files
       /\ Len(invocations') > Len(invocations) =>
             \A r \in 1..Len(removals) :
                 removals[r].path # invocations'[Len(invocations')].input]_vars

\* a batch of three succeeded although both removals failed
C15_Witness ==
    /\ SucceededBatch /\ NumOps = 3 /\ pc = "upload"
    /\ Len(removals) = 2 /\ ~removals[1].ok /\ ~removals[2].ok
    /\ output_path = OutputOf(3)

\* the error the processing stage ended with
FirstProcessError ==
    IF Batch THEN StepError
    ELSE IF Len(invocations) = 1 THEN invocations[1].err
    ELSE <<"Unsupported operation: {}", request.operation>>

\* the error message of a handler that returns from position at
StageErrors(at) ==
    CASE at = "new" -> {<<e>> : e \in TempDirErrors}
      [] at = "download" ->
           {<<"Failed to download video: {}", e>> : e \in FetchErrors}
      [] at = "processed" ->
           {<<IF Batch THEN "Failed to process batch operations: {}"
               ELSE "Failed to process video: {}">> \o FirstProcessError}
      [] at = "upload" ->
           {<<"Failed to upload result: {}", e>> : e \in PublishErrors}
      [] OTHER -> {}

\* C17: a request is answered once; an error at any stage gives a failure
\* response with the message of the first error; success is true exactly
\* when the output reference is present and the error is absent.
C17_OneResponse ==
    [][/\ pc # "done" => response.error = None /\ response.video_url = None
       /\ pc = "done" => response' = response
       /\ (pc # "done" /\ pc' = "done") =>
             /\ response'.operation = IF Batch THEN "batch" ELSE request.operation
             /\ response'.success <=>
                   (response'.video_url # None /\ response'.error = None)
             /\ response'.video_url # None \/ response'.error # None
             /\ response'.success => pc = "upload" /\ result.ok
             /\ ~response'.success =>
                   /\ response'.video_url = None
                   /\ response'.error # None
                   /\ response'.error[1] \in StageErrors(pc)
                   /\ pc = "processed" => result.err = FirstProcessError]_vars

\* the download failed and the handler has answered with that error
C17_Witness ==
    /\ pc = "done" /\ ~response.success /\ response.video_url = None
    /\ response.error = Some(<<"Failed to download video: {}", "error sending request">>)

\* the operations with the order values of the a-th and b-th exchanged
SwapOrders(ops, a, b) ==
    [k \in 1..Len(ops) |->
        [ops[k] EXCEPT !.order =
            IF k = a THEN ops[b].order ELSE IF k = b THEN ops[a].order
            ELSE ops[k].order]]

\* C18: for a successful batch with pairwise distinct orders, exchanging
\* the order values of two operations exchanges their positions in the
\* execution sequence and leaves every other operation where it was.
C18_SwapOrders ==
    (Batch /\ DistinctOrders /\ Returned /\ result.ok) =>
        \A a, b \in 1..NumOps :
            a # b =>
                LET swapped == SortByKey(SwapOrders(request.operations, a, b))
                IN  /\ Len(swapped) = Len(invocations)
                    /\ \A k \in 1..Len(invocations) :
                          swapped[k] =
                             IF invocations[k].src = a THEN b
                             ELSE IF invocations[k].src = b THEN a
                             ELSE invocations[k].src
                    /\ NumOps = 2 =>
                          swapped = <<invocations[2].src, invocations[1].src>>

\* three operations ran in the order 3, 1, 2; with the orders of the
\* first and the third exchanged they run in the order 1, 3, 2
C18_Witness ==
    /\ Batch /\ DistinctOrders /\ pc = "processed" /\ result.ok
    /\ NumOps = 3
    /\ <<invocations[1].src, invocations[2].src, invocations[3].src>> = <<3, 1, 2>>
    /\ SortByKey(SwapOrders(request.operations, 1, 3)) = <<1, 3, 2>>

\* C19: a batch without operations calls neither run_ffmpeg nor
\* remove_file, returns the original source path, and the handler uploads
\* the unmodified source and answers success = true.
C19_EmptyBatch ==
    (Batch /\ NumOps = 0) =>
        /\ invocations = <<>> /\ removals = <<>>
        /\ pc \in {"processed", "upload"} => result = Ok(input_path)
        /\ pc = "upload" =>
              /\ output_path = input_path
              /\ Exists(output_path) /\ files[output_path] = SourceContent
        /\ pc = "done" =>
              \/ /\ response.success
                 /\ \E p \in published :
                       published = {p} /\ p.file_name = input_path
                                       /\ p.content = SourceContent
              \/ /\ ~response.success
                 /\ response.error # None
                 /\ response.error[1][1] \in
                       TempDirErrors \cup
                          {"Failed to download video: {}", "Failed to upload result: {}"}

\* the handler of an empty batch has answered with success
C19_Witness ==
    /\ Batch /\ NumOps = 0 /\ pc = "done" /\ response.success
    /\ Cardinality(published) = 1

\* the first sorted position whose operation name is not supported
RECURSIVE FirstUnsupported(_)
FirstUnsupported(k) ==
    IF k > Len(sorted_ops) THEN 0
    ELSE IF sorted_ops[k].op_type \notin SupportedKinds THEN k
    ELSE FirstUnsupported(k + 1)

\* C20: a batch is not validated up front: when it fails at sorted
\* position k, by an unsupported name or in the transcoder, the k - 1
\* earlier operations have each been transcoded once, and the input of
\* step k is still in the working area, next to the original source,
\* until the handler returns.
C20_FailsLate ==
    (Batch /\ pc = "processed" /\ ~result.ok) =>
        LET k == next_op + 1
            unsupported == result.err[1] = "Unsupported operation: {}"
        IN  /\ k \in 1..Len(sorted_ops)
            /\ unsupported => k = FirstUnsupported(1) /\ Len(invocations) = k - 1
            /\ ~unsupported => Len(invocations) = k /\ ~invocations[k].ok
            /\ \A j \in 1..(k - 1) :
                  invocations[j].ok /\ invocations[j].src = sorted_src[j]
            /\ current_input = IF k = 1 THEN input_path ELSE OutputOf(k - 1)
            /\ Exists(current_input) /\ files[current_input] = Applied(k - 1)
            /\ \A r \in 1..Len(removals) : removals[r].path # current_input
            /\ Exists(input_path) /\ files[input_path] = SourceContent

\* the third operation of a batch was rejected after two steps had run
C20_Witness ==
    /\ Batch /\ pc = "processed" /\ ~result.ok
    /\ result.err = <<"Unsupported operation: {}", "rotate">>
    /\ next_op = 2 /\ Len(invocations) = 2
    /\ Exists(OutputOf(2)) /\ Exists(input_path)

====
